---- MODULE Spec2Model ----
(***************************************************************************)
(* Offline sync engine of react-offline-feature.                           *)
(*                                                                         *)
(*   services/db.ts          LocalStore (accountDb, contactDb), the sync   *)
(*                           queue and the replay loop processSyncQueue    *)
(*   services/connectivity   ConnectivityService: online/offline signals,  *)
(*                           the 2 s debounce timer, processQueue and      *)
(*                           manualSync                                    *)
(*   services/offlineApi.ts  the facade that picks the remote or the local *)
(*                           path for every create/update/delete           *)
(*                                                                         *)
(* All code runs on one cooperative scheduler.  A replay run is cut at its *)
(* network suspension point: one step issues the RemoteGateway call of the *)
(* current queue entry, a later step settles it, and facade calls, signals *)
(* and timers may run in between.  A LocalStore write is cut where the     *)
(* code leaves its record transaction: the queue entry of the write is     *)
(* appended by a later step (addToSyncQueue), and the re-keying of a       *)
(* reconciled record is a delete step followed by a put step.  A           *)
(* contactDb.update or contactDb.delete is cut at the await of its         *)
(* database.get: it reads the record in one step and writes in a later     *)
(* one; accountDb and saveFromServer read and write in one transaction.    *)
(*                                                                         *)
(* A run ends when processSyncQueue returns, or when it rejects before its *)
(* loop has taken up an entry (the database cannot be opened or read).     *)
(*                                                                         *)
(* Not modelled: _lastModified and lastAttempt (written, never read).      *)
(***************************************************************************)
EXTENDS Integers, Sequences, FiniteSets, TLC

\* ------------------------------------------------------------------ bounds
MaxOps == 2        \* Spec: calls the pages make (facade, subscribe), per behaviour
MaxFail == 1       \* Spec: RemoteGateway calls of replay that fail, per behaviour
MaxRetryOps == 1   \* SpecRetry: calls the pages make (facade, subscribe)
MaxAttempts == 5   \* db.ts:499, the retry cap of processSyncQueue

\* ------------------------------------------------------------- identifiers
\* `local_${uuidv4()}` ids in the order they are generated, and the ids the
\* server assigns in the order it assigns them.  uuids are only ever compared
\* for equality, so the n-th fresh id is a fixed name.
LocalPool == <<"local_1", "local_2", "local_3", "local_4", "local_5">>
ServerPool == <<"srv_1", "srv_2", "srv_3", "srv_4", "srv_5">>
NoVal == "none"    \* an absent field (undefined)

\* id.startsWith('local_')
IsLocal(id) == \E i \in 1..Len(LocalPool) : id = LocalPool[i]

\* the values callers write into the Name field, and the absent field
Names == {"Acme", "Bolt"}
NoName == ""

\* the callbacks the components pass to subscribe()
Callbacks == {"onStatusA", "onStatusB"}

\* --------------------------------------------------------------- variables
VARIABLES
  isOnline,        \* ConnectivityService.isOnline
  syncInProgress,  \* ConnectivityService.syncInProgress
  syncScheduled,   \* ConnectivityService.syncScheduled
  timers,          \* pending setTimeout callbacks of scheduleSyncQueue
  runs,            \* executions of processSyncQueue in progress
  accounts,        \* object store 'accounts': id -> record
  contacts,        \* object store 'contacts': id -> record
  syncQueue,       \* object store 'syncQueue', entries in key (uuid) order
  appends,         \* addToSyncQueue calls issued whose put has not run yet
  now,             \* the last value Date.now() returned, 0 before the first
  nextLocal,       \* index of the next fresh local id
  nextSrv,         \* index of the next id the server assigns
  nOps,            \* calls the pages made so far: facade calls, subscribe and
                   \* the manualSync calls that were turned away
  nFail,           \* replay's RemoteGateway calls that failed so far
  limits,          \* the behaviour's bounds on nOps and nFail
  lastCall,        \* the facade call that returned in the last step, NoCall
                   \* after every other step
  idMap,           \* history: local id -> server id of its reconciliation
  failedCalls,     \* history: queue entry id -> failed RemoteGateway calls
  deferred,        \* history: an 'online' signal arrived during the run in
                   \* progress
  succeeded,       \* history: ids of the queue entries counted as success
  subscribers,     \* the callbacks subscribed, in the order of their push
  handles,         \* the unsubscribe functions handed out: the callback each
                   \* closes over, and (history) whether it has been called
  suspended,       \* the contactDb.update / delete calls that await the
                   \* result of their database.get, with the record it read
  notified,        \* history: the callback invocations of the last step, each
                   \* with the status passed and the caller (signal handler
                   \* or subscribe)
  overtaken        \* history: keys of the queue entries that were waiting for
                   \* replay when a facade call changed their record at
                   \* RemoteGateway

connVars == <<isOnline, syncInProgress, syncScheduled, timers>>
dbVars == <<accounts, contacts, syncQueue, appends, now, nextLocal>>
histVars == <<idMap, failedCalls, deferred, succeeded>>
boundVars == <<nOps, nFail, limits>>
subVars == <<subscribers, handles>>
vars == <<isOnline, syncInProgress, syncScheduled, timers, runs, accounts,
          contacts, syncQueue, appends, now, nextLocal, nextSrv, nOps, nFail,
          limits, lastCall, idMap, failedCalls, deferred, succeeded,
          subscribers, handles, suspended, notified, overtaken>>

\* ------------------------------------------------------ object-store helpers
\* store.put(rec) / store.delete(id) / store.get(id) of a keyed object store
Put(store, id, rec) ==
  [x \in (DOMAIN store) \cup {id} |-> IF x = id THEN rec ELSE store[x]]

Del(store, id) == [x \in (DOMAIN store) \ {id} |-> store[x]]

Has(store, id) == id \in DOMAIN store

EmptyStore == [x \in {} |-> NoVal]

\* the sync queue is kept as the sequence database.getAll('syncQueue') returns:
\* ascending key order, the key being the entry's random uuid
InsertAt(q, pos, e) == SubSeq(q, 1, pos - 1) \o <<e>> \o SubSeq(q, pos, Len(q))

Qids(q) == {q[i].id : i \in 1..Len(q)}

\* database.delete('syncQueue', id) that removes nothing
QueueDeleteKeeps(q, qid) == q

\* database.delete('syncQueue', id)
QueueDelete(q, qid) == SelectSeq(q, LAMBDA e : e.id # qid)

\* database.put('syncQueue', e): replaces the entry stored under the key, or
\* stores e when the key is gone
QueuePut(q, e) ==
  IF e.id \in Qids(q)
  THEN [i \in 1..Len(q) |-> IF q[i].id = e.id THEN e ELSE q[i]]
  ELSE Append(q, e)

\* ------------------------------------------------------------ LocalStore reads
\* cleanRecord: the record without _syncStatus and _lastModified
CleanRecord(id, rec) == [id |-> id, name |-> rec.name, AccountId |-> rec.AccountId]

\* what getById returns for undefined
NoRecord == [id |-> NoVal, name |-> NoName, AccountId |-> NoVal]

\* lastCall when the last step was no facade call
NoCall ==
  [op |-> "none", id |-> NoVal, remote |-> "none", result |-> "none",
   value |-> NoRecord, values |-> {}]

\* accountDb.getById / contactDb.getById: undefined for an absent or deleted
\* record, else the clean record
GetById(store, id) ==
  IF ~Has(store, id) \/ store[id].status = "deleted"
  THEN NoRecord
  ELSE CleanRecord(id, store[id])

\* getAll without the filter on _syncStatus
GetAllUnfiltered(store) == {CleanRecord(id, store[id]) : id \in DOMAIN store}

\* accountDb.getAll / contactDb.getAll
GetAll(store) ==
  {CleanRecord(id, store[id]) : id \in {x \in DOMAIN store : store[x].status # "deleted"}}

\* contactDb.getByAccountId: the records of the AccountId index under
\* accountId, without the deleted ones, as clean records
GetByAccountId(store, accountId) ==
  {CleanRecord(id, store[id]) :
     id \in {x \in {y \in DOMAIN store : store[y].AccountId = accountId} :
              store[x].status # "deleted"}}

accountDbGetById(id) == GetById(accounts, id)
contactDbGetById(id) == GetById(contacts, id)
accountDbGetAll == GetAll(accounts)
contactDbGetAll == GetAll(contacts)
contactDbGetByAccountId(accountId) == GetByAccountId(contacts, accountId)

\* ------------------------------------------------------------ LocalStore writes
\* {...base, ...over}: a field of over that is present wins
Merge(base, over) ==
  [name |-> IF over.name # NoName THEN over.name ELSE base.name,
   AccountId |-> IF over.AccountId # NoVal THEN over.AccountId ELSE base.AccountId]

Rec(status, fields) ==
  [status |-> status, name |-> fields.name, AccountId |-> fields.AccountId]

\* uuidv4() of the queue entry of the facade call being made: a key no
\* other entry has
NewQid == nOps + 1

\* an addToSyncQueue call that replaces the queued entries of the same record
enqueueAsCoalescing(qid, entityType, operation, data, ts) ==
  /\ appends' = appends \cup
                  {[id |-> qid, entityType |-> entityType, operation |-> operation,
                    data |-> data, timestamp |-> ts, attempts |-> 0]}
  /\ syncQueue' = SelectSeq(syncQueue, LAMBDA e : e.data.id # data.id)

\* the call addToSyncQueue({id: uuidv4(), ...}) at the end of a LocalStore
\* write: the record transaction is done, the queue put is still to run
enqueueAs(qid, entityType, operation, data, ts) ==
  /\ appends' = appends \cup
                  {[id |-> qid, entityType |-> entityType, operation |-> operation,
                    data |-> data, timestamp |-> ts, attempts |-> 0]}
  /\ UNCHANGED syncQueue

\* the same call in a LocalStore write that runs in the step of its facade call
enqueue(entityType, operation, data, ts) ==
  enqueueAs(NewQid, entityType, operation, data, ts)

\* Date.now(): the clock does not run backwards and may return the same
\* millisecond twice; 0 stands for "not read yet"
Stamps == IF now = 0 THEN {1} ELSE {now, now + 1}

QueuePositions == 1..(Len(syncQueue) + 1)

\* addToSyncQueue(operation): database.put('syncQueue', operation); pos is
\* where the entry's uuid falls in key order
addToSyncQueue(e) ==
  \E pos \in QueuePositions :
    /\ syncQueue' = InsertAt(syncQueue, pos, e)
    /\ appends' = appends \ {e}
    /\ UNCHANGED <<accounts, contacts, now, nextLocal>>

\* accountDb.create(account), account.id absent
accountDbCreate(name) ==
  \E ts \in Stamps :
    LET id == LocalPool[nextLocal]
        data == [id |-> id, name |-> name, AccountId |-> NoVal]
    IN /\ nextLocal <= Len(LocalPool)
       /\ accounts' = Put(accounts, id, Rec("created", data))
       /\ enqueue("account", "create", data, ts)
       /\ now' = ts
       /\ nextLocal' = nextLocal + 1
       /\ UNCHANGED contacts

\* update that marks every record it writes as updated
UpdatedStatusDemotes(existing) == "updated"

\* _syncStatus of an updated record: created stays created
UpdatedStatus(existing) ==
  IF existing.status = "created" THEN "created" ELSE "updated"

\* update(id, ...) that throws only when no record is stored under id
UpdateThrowsOnlyAbsent(store, id) == ~Has(store, id)

\* update(id, ...) throws `... with ID ${id} not found`
UpdateThrows(store, id) == ~Has(store, id) \/ store[id].status = "deleted"

\* delete(id) returns at once: already deleted or absent
DeleteReturns(store, id) == ~Has(store, id) \/ store[id].status = "deleted"

\* accountDb.update(id, account); throws (no step) when absent or deleted
accountDbUpdate(id, name) ==
  \E ts \in Stamps :
    /\ ~UpdateThrows(accounts, id)
    /\ LET existing == accounts[id]
           partial == [name |-> name, AccountId |-> NoVal]
           status == UpdatedStatus(existing)
           op == IF existing.status = "created" THEN "create" ELSE "update"
       IN /\ accounts' = Put(accounts, id, Rec(status, Merge(existing, partial)))
          /\ enqueue("account", op,
                     [id |-> id, name |-> name, AccountId |-> NoVal], ts)
    /\ now' = ts
    /\ UNCHANGED <<contacts, nextLocal>>

\* accountDb.delete(id); returns without a step when absent or deleted
accountDbDelete(id) ==
  \E ts \in Stamps :
    /\ ~DeleteReturns(accounts, id)
    /\ IF accounts[id].status = "created" /\ IsLocal(id)
       THEN accounts' = Del(accounts, id)
       ELSE accounts' = Put(accounts, id, [accounts[id] EXCEPT !.status = "deleted"])
    /\ enqueue("account", "delete",
               [id |-> id, name |-> NoName, AccountId |-> NoVal], ts)
    /\ now' = ts
    /\ UNCHANGED <<contacts, nextLocal>>

\* saveFromServer that overwrites whatever is stored
accountDbSaveFromServerClobbers(account) ==
  /\ IF account.id # NoVal
     THEN accounts' = Put(accounts, account.id, Rec("synced", account))
     ELSE UNCHANGED accounts
  /\ UNCHANGED <<contacts, syncQueue, appends, now, nextLocal>>

\* accountDb.saveFromServer([account])
accountDbSaveFromServer(account) ==
  /\ IF account.id # NoVal
        /\ (~Has(accounts, account.id) \/ accounts[account.id].status = "synced")
     THEN accounts' = Put(accounts, account.id, Rec("synced", account))
     ELSE UNCHANGED accounts
  /\ UNCHANGED <<contacts, syncQueue, appends, now, nextLocal>>

\* contactDb.create(contact), contact.id absent
contactDbCreate(name, acc) ==
  \E ts \in Stamps :
    LET id == LocalPool[nextLocal]
        data == [id |-> id, name |-> name, AccountId |-> acc]
    IN /\ nextLocal <= Len(LocalPool)
       /\ contacts' = Put(contacts, id, Rec("created", data))
       /\ enqueue("contact", "create", data, ts)
       /\ now' = ts
       /\ nextLocal' = nextLocal + 1
       /\ UNCHANGED accounts

\* contactDb.update / delete up to `await database.get('contacts', id)`: the
\* record is read in a transaction of its own and the call waits for it; qid
\* is the key its queue entry will get
contactDbGet(op, id, name, acc, remote) ==
  suspended' = suspended \cup
    {[op |-> op, id |-> id, existing |-> contacts[id], name |-> name,
      acc |-> acc, remote |-> remote, qid |-> NewQid]}

\* contactDb.update(id, contact) from the result of its get on: the put of
\* the record it read, merged, in a second transaction, and the queue entry
contactDbUpdate(id, name, acc, existing, qid) ==
  \E ts \in Stamps :
    /\ LET partial == [name |-> name, AccountId |-> acc]
           status == UpdatedStatus(existing)
           op == IF existing.status = "created" THEN "create" ELSE "update"
       IN /\ contacts' = Put(contacts, id, Rec(status, Merge(existing, partial)))
          /\ enqueueAs(qid, "contact", op,
                       [id |-> id, name |-> name, AccountId |-> acc], ts)
    /\ now' = ts
    /\ UNCHANGED <<accounts, nextLocal>>

\* contactDb.delete(id) from the result of its get on: the delete, or the put
\* of the record it read as a tombstone and the queue entry
contactDbDelete(id, existing, qid) ==
  \E ts \in Stamps :
    /\ IF existing.status = "created" /\ IsLocal(id)
       THEN /\ contacts' = Del(contacts, id)
            /\ UNCHANGED <<syncQueue, appends>>
       ELSE /\ contacts' = Put(contacts, id, [existing EXCEPT !.status = "deleted"])
            /\ enqueueAs(qid, "contact", "delete",
                         [id |-> id, name |-> NoName, AccountId |-> NoVal], ts)
    /\ now' = ts
    /\ UNCHANGED <<accounts, nextLocal>>

\* contactDb.saveFromServer([contact])
contactDbSaveFromServer(contact) ==
  /\ IF ~Has(contacts, contact.id) \/ contacts[contact.id].status = "synced"
     THEN contacts' = Put(contacts, contact.id, Rec("synced", contact))
     ELSE UNCHANGED contacts
  /\ UNCHANGED <<accounts, syncQueue, appends, now, nextLocal>>

\* ------------------------------------------------------------ RemoteGateway
\* accountApi / contactApi (services/api.ts): create(payload) returns the
\* payload under the id the server assigns, update(id, partial) returns the
\* record with the fields sent.  Whether a call succeeds is the caller's
\* nondeterministic choice.
RemoteCreate(payload, sid) ==
  [id |-> sid, name |-> payload.name, AccountId |-> payload.AccountId]

RemoteUpdate(id, partial) ==
  [id |-> id, name |-> partial.name, AccountId |-> partial.AccountId]

FreshServerId == ServerPool[nextSrv]

\* ------------------------------------------------------------ processSyncQueue
\* operations.sort((a, b) => a.timestamp - b.timestamp): a stable sort of the
\* entries in the order getAll returned them
InsertByTimestamp(sorted, e) ==
  LET after == {i \in 1..Len(sorted) : sorted[i].timestamp > e.timestamp}
      pos == IF after = {} THEN Len(sorted) + 1
             ELSE CHOOSE i \in after : \A j \in after : i <= j
  IN InsertAt(sorted, pos, e)

\* the entries left in the order getAll returned them
UnsortedOps(ops) == ops

RECURSIVE SortByTimestamp(_)
SortByTimestamp(ops) ==
  IF ops = <<>> THEN <<>>
  ELSE InsertByTimestamp(SortByTimestamp(SubSeq(ops, 1, Len(ops) - 1)), ops[Len(ops)])

\* a run of processSyncQueue right after `operations` was read and sorted;
\* src is the caller: "auto" (processQueue) or "manual" (manualSync)
\* phase: "next" before the loop body of entry i, "call" while the
\* RemoteGateway call of entry i is in flight, "put" between the delete and
\* the put of a reconciliation; held and sid are localAccount / localContact
\* and newAccount.id / newContact.id of that reconciliation
NoHeld == [status |-> NoVal, name |-> NoName, AccountId |-> NoVal]

NewRun(src) ==
  [src |-> src, ops |-> SortByTimestamp(syncQueue), i |-> 1, phase |-> "next",
   success |-> 0, failed |-> 0, calls |-> <<>>, held |-> NoHeld, sid |-> NoVal]

RunIds == 1..Len(runs)

RemoveRun(r) == SubSeq(runs, 1, r - 1) \o SubSeq(runs, r + 1, Len(runs))

\* no cap on the attempts
AttemptsNeverExhausted(op) == FALSE

\* the cap compared with > instead of >=
AttemptsExhaustedOffByOne(op) == op.attempts > MaxAttempts

\* if (operation.attempts >= 5): the entry is skipped
AttemptsExhausted(op) == op.attempts >= MaxAttempts

\* processAccountOperation / processContactOperation return before any
\* RemoteGateway call: update or delete of a local id
SkipsRemote(op) == op.operation \in {"update", "delete"} /\ IsLocal(op.data.id)

\* the loop body up to the RemoteGateway call of entry i (db.ts 489-515)
ProcessNext(r) ==
  /\ runs[r].phase = "next"
  /\ runs[r].i <= Len(runs[r].ops)
  /\ LET run == runs[r]
         op == run.ops[run.i]
         tried == [op EXCEPT !.attempts = @ + 1]
     IN IF AttemptsExhausted(op)
        THEN /\ runs' = [runs EXCEPT ![r].failed = @ + 1, ![r].i = @ + 1]
             /\ UNCHANGED <<syncQueue, succeeded>>
        ELSE IF SkipsRemote(op)
        THEN /\ runs' = [runs EXCEPT ![r].ops[run.i] = tried,
                                     ![r].success = @ + 1, ![r].i = @ + 1]
             /\ syncQueue' = QueueDelete(QueuePut(syncQueue, tried), op.id)
             /\ succeeded' = succeeded \cup {op.id}
        ELSE /\ runs' = [runs EXCEPT ![r].ops[run.i] = tried,
                                     ![r].phase = "call",
                                     ![r].calls = Append(@, tried)]
             /\ syncQueue' = QueuePut(syncQueue, tried)
             /\ UNCHANGED succeeded
  /\ UNCHANGED <<connVars, accounts, contacts, appends, now, nextLocal, nextSrv,
                 boundVars, subVars, suspended, overtaken, idMap, failedCalls, deferred>>
  /\ lastCall' = NoCall
  /\ notified' = <<>>

\* what a successful create / update / delete call leaves in an object store
\* (db.ts 537-613 for accounts, 623-698 for contacts, the code after the await)
\* create, local id, the local record found: database.delete(store, oldId)
ReconcileDelete(store, oldId) == Del(store, oldId)

\* create, local id: database.put(store, {...local, ...newRecord, id, synced})
ReconcilePut(store, held, newRecord) ==
  Put(store, newRecord.id, Rec("synced", Merge(held, newRecord)))

\* create, id not local: the record stored under data.id is read and the
\* merged record is put under the server's id
CreateNonLocal(store, data, sid) ==
  IF ~Has(store, data.id) THEN store
  ELSE ReconcilePut(store, store[data.id], RemoteCreate(data, sid))

ApplyUpdate(store, data) ==
  IF ~Has(store, data.id) THEN store
  ELSE Put(store, data.id,
           Rec("synced", Merge(store[data.id], RemoteUpdate(data.id, data))))

ApplyDelete(store, data) == Del(store, data.id)

StoreOf(entityType) == IF entityType = "account" THEN accounts ELSE contacts

\* a create that finds the record of its local id: it re-keys the record
Reconciles(op) ==
  /\ op.operation = "create"
  /\ IsLocal(op.data.id)
  /\ Has(StoreOf(op.entityType), op.data.id)

\* the code of processAccountOperation / processContactOperation after its
\* RemoteGateway call returned, up to the point where a reconciliation has
\* deleted the local record
ProcessOperation(store, op, sid) ==
  IF op.operation = "create"
  THEN IF IsLocal(op.data.id)
       THEN IF Has(store, op.data.id) THEN ReconcileDelete(store, op.data.id)
            ELSE store
       ELSE CreateNonLocal(store, op.data, sid)
  ELSE IF op.operation = "update" THEN ApplyUpdate(store, op.data)
  ELSE ApplyDelete(store, op.data)

processAccountOperation(op, sid) ==
  /\ accounts' = ProcessOperation(accounts, op, sid)
  /\ UNCHANGED contacts

processContactOperation(op, sid) ==
  /\ contacts' = ProcessOperation(contacts, op, sid)
  /\ UNCHANGED accounts

\* the RemoteGateway call of entry i succeeded: local bookkeeping, then
\* database.delete('syncQueue', operation.id) and success++ (db.ts 510-519);
\* a reconciliation stops after its delete, with the put still to run
SettleOk(r) ==
  /\ runs[r].phase = "call"
  /\ LET run == runs[r]
         op == run.ops[run.i]
     IN /\ op.operation = "create" => nextSrv <= Len(ServerPool)
        /\ IF op.entityType = "account"
           THEN processAccountOperation(op, FreshServerId)
           ELSE processContactOperation(op, FreshServerId)
        /\ nextSrv' = IF op.operation = "create" THEN nextSrv + 1 ELSE nextSrv
        /\ IF Reconciles(op)
           THEN /\ runs' = [runs EXCEPT ![r].phase = "put",
                                        ![r].held = StoreOf(op.entityType)[op.data.id],
                                        ![r].sid = FreshServerId]
                /\ UNCHANGED <<syncQueue, failedCalls, succeeded>>
           ELSE /\ runs' = [runs EXCEPT ![r].success = @ + 1, ![r].i = @ + 1,
                                        ![r].phase = "next"]
                /\ syncQueue' = QueueDelete(syncQueue, op.id)
                /\ failedCalls' = Del(failedCalls, op.id)
                /\ succeeded' = succeeded \cup {op.id}
  /\ UNCHANGED <<connVars, appends, now, nextLocal, boundVars, subVars, suspended, overtaken, idMap, deferred>>
  /\ lastCall' = NoCall
  /\ notified' = <<>>

\* the put of a reconciliation, then database.delete('syncQueue',
\* operation.id) and success++
SettlePut(r) ==
  /\ runs[r].phase = "put"
  /\ LET run == runs[r]
         op == run.ops[run.i]
         newRecord == RemoteCreate(op.data, run.sid)
     IN /\ IF op.entityType = "account"
           THEN /\ accounts' = ReconcilePut(accounts, run.held, newRecord)
                /\ UNCHANGED contacts
           ELSE /\ contacts' = ReconcilePut(contacts, run.held, newRecord)
                /\ UNCHANGED accounts
        /\ syncQueue' = QueueDelete(syncQueue, op.id)
        /\ runs' = [runs EXCEPT ![r].success = @ + 1, ![r].i = @ + 1,
                                ![r].phase = "next", ![r].held = NoHeld,
                                ![r].sid = NoVal]
        /\ idMap' = Put(idMap, op.data.id, run.sid)
        /\ failedCalls' = Del(failedCalls, op.id)
        /\ succeeded' = succeeded \cup {op.id}
  /\ UNCHANGED <<connVars, appends, now, nextLocal, nextSrv, boundVars, subVars, suspended, overtaken, deferred>>
  /\ lastCall' = NoCall
  /\ notified' = <<>>

\* a failed call that ends the loop
SettleFailAborts(r) ==
  /\ runs[r].phase = "call"
  /\ nFail < limits.fails
  /\ LET op == runs[r].ops[runs[r].i]
         before == IF Has(failedCalls, op.id) THEN failedCalls[op.id] ELSE 0
     IN /\ runs' = [runs EXCEPT ![r].failed = @ + 1,
                                ![r].i = Len(runs[r].ops) + 1,
                                ![r].phase = "next"]
        /\ failedCalls' = Put(failedCalls, op.id, before + 1)
  /\ nFail' = nFail + 1
  /\ UNCHANGED <<connVars, dbVars, nextSrv, nOps, limits, subVars, suspended, overtaken, idMap, deferred,
                 succeeded>>
  /\ lastCall' = NoCall
  /\ notified' = <<>>

\* the RemoteGateway call of entry i failed: catch, failed++ (db.ts 520-523)
SettleFail(r) ==
  /\ runs[r].phase = "call"
  /\ nFail < limits.fails
  /\ LET op == runs[r].ops[runs[r].i]
         before == IF Has(failedCalls, op.id) THEN failedCalls[op.id] ELSE 0
     IN /\ runs' = [runs EXCEPT ![r].failed = @ + 1, ![r].i = @ + 1,
                                ![r].phase = "next"]
        /\ failedCalls' = Put(failedCalls, op.id, before + 1)
  /\ nFail' = nFail + 1
  /\ UNCHANGED <<connVars, dbVars, nextSrv, nOps, limits, subVars, suspended, overtaken, idMap, deferred,
                 succeeded>>
  /\ lastCall' = NoCall
  /\ notified' = <<>>

RunDone(r) == runs[r].phase = "next" /\ runs[r].i > Len(runs[r].ops)

\* ------------------------------------------------------------ ConnectivityService
\* scheduleSyncQueue() without the already-scheduled half of its guard
scheduleSyncQueueNoDebounce(inProgress) ==
  IF inProgress
  THEN UNCHANGED <<syncScheduled, timers>>
  ELSE /\ syncScheduled' = TRUE
       /\ timers' = timers + 1

\* scheduleSyncQueue(), called when this.syncInProgress has the value inProgress
scheduleSyncQueue(inProgress) ==
  IF syncScheduled \/ inProgress
  THEN UNCHANGED <<syncScheduled, timers>>
  ELSE /\ syncScheduled' = TRUE
       /\ timers' = timers + 1

\* notifySubscribers(): callback(this.isOnline) for every subscriber in turn
notifySubscribers(status) ==
  notified' = [k \in 1..Len(subscribers) |->
                 [cb |-> subscribers[k], online |-> status, by |-> "signal"]]

\* window 'online' event
handleOnline ==
  /\ isOnline' = TRUE
  /\ notifySubscribers(TRUE)
  /\ scheduleSyncQueue(syncInProgress)
  /\ deferred' = (deferred \/ syncInProgress)
  /\ UNCHANGED <<syncInProgress, runs, dbVars, nextSrv, boundVars, subVars, suspended, overtaken, idMap,
                 failedCalls, succeeded>>
  /\ lastCall' = NoCall

\* window 'offline' event
handleOffline ==
  /\ isOnline' = FALSE
  /\ notifySubscribers(FALSE)
  /\ UNCHANGED <<syncInProgress, syncScheduled, timers, runs, dbVars, nextSrv,
                 boundVars, subVars, suspended, overtaken, histVars>>
  /\ lastCall' = NoCall

\* processQueue() without the in-progress half of its guard
processQueueIgnoresInProgress ==
  IF ~isOnline
  THEN UNCHANGED <<syncInProgress, runs>>
  ELSE /\ syncInProgress' = TRUE
       /\ runs' = Append(runs, NewRun("auto"))

\* processQueue() up to its first await: the guard, the flag, the queue read
processQueue ==
  IF ~isOnline \/ syncInProgress
  THEN UNCHANGED <<syncInProgress, runs>>
  ELSE /\ syncInProgress' = TRUE
       /\ runs' = Append(runs, NewRun("auto"))

\* the setTimeout callback: this.processQueue(); this.syncScheduled = false
TimerFire ==
  /\ timers > 0
  /\ timers' = timers - 1
  /\ processQueue
  /\ syncScheduled' = FALSE
  /\ UNCHANGED <<isOnline, dbVars, nextSrv, boundVars, subVars, suspended, overtaken, histVars>>
  /\ lastCall' = NoCall
  /\ notified' = <<>>

\* processQueue() after processSyncQueue returned: the finally block
processQueueFinally(r) ==
  /\ runs[r].src = "auto"
  /\ RunDone(r)
  /\ syncInProgress' = FALSE
  /\ IF isOnline THEN scheduleSyncQueue(FALSE)
     ELSE UNCHANGED <<syncScheduled, timers>>
  /\ runs' = RemoveRun(r)
  /\ deferred' = FALSE
  /\ UNCHANGED <<isOnline, dbVars, nextSrv, boundVars, subVars, suspended, overtaken, idMap, failedCalls,
                 succeeded>>
  /\ lastCall' = NoCall
  /\ notified' = <<>>

\* processSyncQueue() of run r rejects: initDatabase() or getAll('syncQueue')
\* fails, before the loop has taken up an entry
Rejects(r) ==
  /\ runs[r].phase = "next"
  /\ runs[r].i = 1
  /\ runs[r].calls = <<>>

\* processQueue() after processSyncQueue rejected: the catch block logs, the
\* finally block runs
processQueueCatch(r) ==
  /\ runs[r].src = "auto"
  /\ Rejects(r)
  /\ syncInProgress' = FALSE
  /\ IF isOnline THEN scheduleSyncQueue(FALSE)
     ELSE UNCHANGED <<syncScheduled, timers>>
  /\ runs' = RemoveRun(r)
  /\ deferred' = FALSE
  /\ UNCHANGED <<isOnline, dbVars, nextSrv, boundVars, subVars, suspended, overtaken, idMap, failedCalls,
                 succeeded>>
  /\ lastCall' = NoCall
  /\ notified' = <<>>

\* what a manualSync() call that starts no run hands back
ManualSyncNull ==
  [op |-> "manualSync", id |-> NoVal, remote |-> "none", result |-> "null",
   value |-> NoRecord, values |-> {}]

\* manualSync() that runs its finally block on the early returns as well
manualSyncClearsFlag ==
  /\ IF ~isOnline \/ syncInProgress
     THEN /\ nOps < limits.ops
          /\ nOps' = nOps + 1
          /\ syncInProgress' = FALSE
          /\ UNCHANGED runs
          /\ lastCall' = ManualSyncNull
          /\ notified' = <<>>
     ELSE /\ syncInProgress' = TRUE
          /\ runs' = Append(runs, NewRun("manual"))
          /\ lastCall' = NoCall
          /\ notified' = <<>>
          /\ UNCHANGED nOps
  /\ UNCHANGED <<isOnline, syncScheduled, timers, dbVars, nextSrv, nFail, limits, subVars, suspended, overtaken,
                 histVars>>

\* manualSync() up to its first await: it returns null when offline or when
\* a sync is in progress (a call that counts against MaxOps), else it sets
\* the flag and reads the queue
manualSync ==
  /\ IF ~isOnline \/ syncInProgress
     THEN /\ nOps < limits.ops
          /\ nOps' = nOps + 1
          /\ UNCHANGED <<syncInProgress, runs>>
          /\ lastCall' = ManualSyncNull
          /\ notified' = <<>>
     ELSE /\ syncInProgress' = TRUE
          /\ runs' = Append(runs, NewRun("manual"))
          /\ lastCall' = NoCall
          /\ notified' = <<>>
          /\ UNCHANGED nOps
  /\ UNCHANGED <<isOnline, syncScheduled, timers, dbVars, nextSrv, nFail, limits, subVars, suspended, overtaken,
                 histVars>>

\* a finally block of manualSync() that leaves the flag set
manualSyncFinallyKeepsFlag(r) ==
  /\ runs[r].src = "manual"
  /\ RunDone(r)
  /\ runs' = RemoveRun(r)
  /\ deferred' = FALSE
  /\ UNCHANGED <<isOnline, syncInProgress, syncScheduled, timers, dbVars, nextSrv,
                 boundVars, subVars, suspended, overtaken, idMap, failedCalls,
                 succeeded>>
  /\ lastCall' = NoCall
  /\ notified' = <<>>

\* manualSync() after processSyncQueue returned: the finally block
manualSyncFinally(r) ==
  /\ runs[r].src = "manual"
  /\ RunDone(r)
  /\ syncInProgress' = FALSE
  /\ runs' = RemoveRun(r)
  /\ deferred' = FALSE
  /\ UNCHANGED <<isOnline, syncScheduled, timers, dbVars, nextSrv, boundVars, subVars, suspended, overtaken,
                 idMap, failedCalls, succeeded>>
  /\ lastCall' = NoCall
  /\ notified' = <<>>

\* manualSync() after processSyncQueue rejected: the catch block, then the
\* finally block
manualSyncCatch(r) ==
  /\ runs[r].src = "manual"
  /\ Rejects(r)
  /\ syncInProgress' = FALSE
  /\ runs' = RemoveRun(r)
  /\ deferred' = FALSE
  /\ UNCHANGED <<isOnline, syncScheduled, timers, dbVars, nextSrv, boundVars, subVars, suspended, overtaken,
                 idMap, failedCalls, succeeded>>
  /\ lastCall' = NoCall
  /\ notified' = <<>>

\* the unsubscribe function that removes nothing
unsubscribeKeeps(h) ==
  /\ subscribers' = subscribers
  /\ handles' = [handles EXCEPT ![h].called = TRUE]

\* the function subscribe() returned as handle h: it drops every subscriber
\* equal to the callback it closes over
unsubscribe(h) ==
  /\ subscribers' = SelectSeq(subscribers, LAMBDA cb : cb # handles[h].cb)
  /\ handles' = [handles EXCEPT ![h].called = TRUE]

\* subscribe(callback): push, callback(this.isOnline), return the function
subscribe(callback) ==
  /\ subscribers' = Append(subscribers, callback)
  /\ notified' = <<[cb |-> callback, online |-> isOnline, by |-> "subscribe"]>>
  /\ handles' = Append(handles, [cb |-> callback, called |-> FALSE])

\* ------------------------------------------------------------ OfflineFacade
\* Each facade call is one step up to the end of its record transaction:
\* where it awaits RemoteGateway, `ok` is the outcome of that call and `rec` /
\* `list` is what the server answers.  lastCall is what the call did and what
\* it hands back to its caller.
Payload(name, acc) == [id |-> NoVal, name |-> name, AccountId |-> acc]

\* the condition on which a facade call goes to RemoteGateway, without the
\* test for a local id
UsesRemoteAnyId(ref) == isOnline

\* the condition on which a facade call goes to RemoteGateway: the client is
\* online and ref (the id argument, or the AccountId of a new contact) is
\* not a local id
UsesRemote(ref) == isOnline /\ ~IsLocal(ref)

\* how the RemoteGateway call of a facade call went, "none" when none was made
RemoteOutcome(ref, ok) ==
  IF ~UsesRemote(ref) THEN "none" ELSE IF ok THEN "ok" ELSE "failed"

\* the call returns value / values, or throws result
Returns(op, id, remote, result, value, values) ==
  lastCall' = [op |-> op, id |-> id, remote |-> remote, result |-> result,
               value |-> value, values |-> values]

\* what a read of one record hands back
ReadResult(rec) == IF rec = NoRecord THEN "undefined" ELSE "data"

\* offlineAccountApi.getAccounts()
offlineGetAccounts(ok, list) ==
  /\ IF UsesRemote(NoVal) /\ ok
     THEN /\ IF list = {} THEN UNCHANGED dbVars
             ELSE \E account \in list : accountDbSaveFromServer(account)
          /\ Returns("getAccounts", NoVal, "ok", "data", NoRecord, list)
     ELSE /\ UNCHANGED dbVars
          /\ Returns("getAccounts", NoVal, RemoteOutcome(NoVal, ok), "data",
                     NoRecord, accountDbGetAll)
  /\ UNCHANGED nextSrv

\* offlineAccountApi.getAccount(id)
offlineGetAccount(id, ok, account) ==
  /\ IF UsesRemote(id) /\ ok
     THEN /\ accountDbSaveFromServer(account)
          /\ Returns("getAccount", id, "ok", "data", account, {})
     ELSE /\ UNCHANGED dbVars
          /\ Returns("getAccount", id, RemoteOutcome(id, ok),
                     ReadResult(accountDbGetById(id)), accountDbGetById(id), {})
  /\ UNCHANGED nextSrv

\* offlineAccountApi.createAccount(accountData)
offlineCreateAccount(name, ok) ==
  IF UsesRemote(NoVal) /\ ok
  THEN LET newAccount == RemoteCreate(Payload(name, NoVal), FreshServerId)
       IN /\ nextSrv <= Len(ServerPool)
          /\ accountDbSaveFromServer(newAccount)
          /\ nextSrv' = nextSrv + 1
          /\ Returns("createAccount", NoVal, "ok", "data", newAccount, {})
  ELSE /\ accountDbCreate(name)
       /\ UNCHANGED nextSrv
       /\ Returns("createAccount", NoVal, RemoteOutcome(NoVal, ok), "data",
                  GetById(accounts', LocalPool[nextLocal]), {})

\* updateAccount without the catch around accountApi.updateAccount
offlineUpdateAccountRethrows(id, name, ok) ==
  /\ IF UsesRemote(id) /\ ok
     THEN LET updatedAccount == RemoteUpdate(id, Payload(name, NoVal))
          IN /\ accountDbSaveFromServer(updatedAccount)
             /\ Returns("updateAccount", id, "ok", "data", updatedAccount, {})
     ELSE IF UsesRemote(id)
     THEN /\ UNCHANGED dbVars
          /\ Returns("updateAccount", id, "failed", "RemoteError", NoRecord, {})
     ELSE IF UpdateThrows(accounts, id)
     THEN /\ UNCHANGED dbVars
          /\ Returns("updateAccount", id, "none", "NotFound", NoRecord, {})
     ELSE /\ accountDbUpdate(id, name)
          /\ Returns("updateAccount", id, "none", "data",
                     GetById(accounts', id), {})
  /\ UNCHANGED nextSrv

\* offlineAccountApi.updateAccount(id, accountData)
offlineUpdateAccount(id, name, ok) ==
  /\ IF UsesRemote(id) /\ ok
     THEN LET updatedAccount == RemoteUpdate(id, Payload(name, NoVal))
          IN /\ accountDbSaveFromServer(updatedAccount)
             /\ Returns("updateAccount", id, "ok", "data", updatedAccount, {})
     ELSE IF UpdateThrows(accounts, id)
     THEN /\ UNCHANGED dbVars
          /\ Returns("updateAccount", id, RemoteOutcome(id, ok), "NotFound",
                     NoRecord, {})
     ELSE /\ accountDbUpdate(id, name)
          /\ Returns("updateAccount", id, RemoteOutcome(id, ok), "data",
                     GetById(accounts', id), {})
  /\ UNCHANGED nextSrv

\* offlineAccountApi.deleteAccount(id): accountDb.delete(id) on every path,
\* after accountApi.deleteAccount(id) when online and the id is not local
offlineDeleteAccount(id, ok) ==
  /\ IF DeleteReturns(accounts, id) THEN UNCHANGED dbVars
     ELSE accountDbDelete(id)
  /\ Returns("deleteAccount", id, RemoteOutcome(id, ok), "void", NoRecord, {})
  /\ UNCHANGED nextSrv

\* offlineContactApi.getContacts()
offlineGetContacts(ok, list) ==
  /\ IF UsesRemote(NoVal) /\ ok
     THEN /\ IF list = {} THEN UNCHANGED dbVars
             ELSE \E contact \in list : contactDbSaveFromServer(contact)
          /\ Returns("getContacts", NoVal, "ok", "data", NoRecord, list)
     ELSE /\ UNCHANGED dbVars
          /\ Returns("getContacts", NoVal, RemoteOutcome(NoVal, ok), "data",
                     NoRecord, contactDbGetAll)
  /\ UNCHANGED nextSrv

\* offlineContactApi.getContact(id)
offlineGetContact(id, ok, contact) ==
  /\ IF UsesRemote(id) /\ ok
     THEN /\ contactDbSaveFromServer(contact)
          /\ Returns("getContact", id, "ok", "data", contact, {})
     ELSE /\ UNCHANGED dbVars
          /\ Returns("getContact", id, RemoteOutcome(id, ok),
                     ReadResult(contactDbGetById(id)), contactDbGetById(id), {})
  /\ UNCHANGED nextSrv

\* offlineContactApi.createContact(contactData)
offlineCreateContact(name, acc, ok) ==
  IF UsesRemote(acc) /\ ok
  THEN LET newContact == RemoteCreate(Payload(name, acc), FreshServerId)
       IN /\ nextSrv <= Len(ServerPool)
          /\ contactDbSaveFromServer(newContact)
          /\ nextSrv' = nextSrv + 1
          /\ Returns("createContact", NoVal, "ok", "data", newContact, {})
  ELSE /\ contactDbCreate(name, acc)
       /\ UNCHANGED nextSrv
       /\ Returns("createContact", NoVal, RemoteOutcome(acc, ok), "data",
                  GetById(contacts', LocalPool[nextLocal]), {})

\* offlineContactApi.updateContact(id, contactData)
offlineUpdateContact(id, name, acc, ok) ==
  /\ IF UsesRemote(id) /\ ok
     THEN LET updatedContact == RemoteUpdate(id, Payload(name, acc))
          IN /\ contactDbSaveFromServer(updatedContact)
             /\ Returns("updateContact", id, "ok", "data", updatedContact, {})
          /\ UNCHANGED suspended
     ELSE IF UpdateThrows(contacts, id)
     THEN /\ UNCHANGED <<dbVars, suspended>>
          /\ Returns("updateContact", id, RemoteOutcome(id, ok), "NotFound",
                     NoRecord, {})
     ELSE /\ contactDbGet("updateContact", id, name, acc, RemoteOutcome(id, ok))
          /\ UNCHANGED dbVars
          /\ lastCall' = NoCall
  /\ UNCHANGED nextSrv

\* offlineContactApi.deleteContact(id)
offlineDeleteContact(id, ok) ==
  /\ IF DeleteReturns(contacts, id)
     THEN /\ UNCHANGED suspended
          /\ Returns("deleteContact", id, RemoteOutcome(id, ok), "void",
                     NoRecord, {})
     ELSE /\ contactDbGet("deleteContact", id, NoName, NoVal,
                          RemoteOutcome(id, ok))
          /\ lastCall' = NoCall
  /\ UNCHANGED <<dbVars, nextSrv>>

\* a suspended contactDb.update / delete goes on with the record it read, and
\* the facade call returns
contactDbResume(w) ==
  /\ suspended' = suspended \ {w}
  /\ IF w.op = "updateContact"
     THEN /\ contactDbUpdate(w.id, w.name, w.acc, w.existing, w.qid)
          /\ Returns("updateContact", w.id, w.remote, "data",
                     GetById(contacts', w.id), {})
     ELSE /\ contactDbDelete(w.id, w.existing, w.qid)
          /\ Returns("deleteContact", w.id, w.remote, "void", NoRecord, {})
  /\ notified' = <<>>
  /\ UNCHANGED <<connVars, runs, nextSrv, boundVars, subVars, histVars,
                 overtaken>>

\* the keys of the entries of a record that wait for replay, queued or on
\* their way into the queue and not in flight, when a facade call has
\* RemoteGateway update or delete that record: call is what the facade call
\* returned, waiting the contactDb calls it left suspended
OvertakenBy(call, waiting) ==
  LET direct ==
        (IF call.remote = "ok"
            /\ call.op \in {"updateAccount", "deleteAccount",
                            "updateContact", "deleteContact"}
         THEN {[op |-> call.op, id |-> call.id]} ELSE {})
        \cup {[op |-> w.op, id |-> w.id] : w \in {x \in waiting : x.remote = "ok"}}
      pending == {syncQueue[k] : k \in 1..Len(syncQueue)} \cup appends
      entity(op) == IF op \in {"updateAccount", "deleteAccount"}
                    THEN "account" ELSE "contact"
      inFlight(qid) ==
        \E r \in RunIds : /\ runs[r].phase \in {"call", "put"}
                          /\ runs[r].ops[runs[r].i].id = qid
  IN {e.id : e \in {x \in pending :
                      /\ ~inFlight(x.id)
                      /\ \E d \in direct : /\ x.entityType = entity(d.op)
                                            /\ x.data.id = d.id}}

\* a facade call made by the pages; it counts against MaxOps
FacadeCall(A) ==
  /\ nOps < limits.ops
  /\ A
  /\ nOps' = nOps + 1
  /\ notified' = <<>>
  /\ overtaken' = overtaken \cup OvertakenBy(lastCall', suspended' \ suspended)
  /\ UNCHANGED <<connVars, runs, nFail, limits, subVars, histVars>>

\* a call that makes no contactDb.update / delete: none is left waiting
Returning(A) == A /\ UNCHANGED suspended

\* the accounts a contact form offers: those accountDb.getAll returns
AccountChoices == {NoVal} \cup {a.id : a \in accountDbGetAll}

\* the ids a page may hold: those of the stored records and the local ids it
\* was given before their records were re-keyed
CallerIds(store) == DOMAIN store \cup DOMAIN idMap

\* the records the server may answer with for the ids stored locally
ServerRecords(store) ==
  {[id |-> id, name |-> name, AccountId |-> store[id].AccountId] :
     id \in {x \in DOMAIN store : ~IsLocal(x)}, name \in Names}

\* the lists the server may answer with: empty or one record
ServerLists(store) == {{}} \cup {{rec} : rec \in ServerRecords(store)}

\* the record the server may answer with for id
ServerRecordsOf(store, id) ==
  IF Has(store, id) THEN {rec \in ServerRecords(store) : rec.id = id}
  ELSE {[id |-> id, name |-> name, AccountId |-> NoVal] : name \in Names}

GetAccounts == \E ok \in BOOLEAN, list \in ServerLists(accounts) :
  FacadeCall(Returning(offlineGetAccounts(ok, list)))

GetAccount == \E id \in CallerIds(accounts), ok \in BOOLEAN :
  \E account \in ServerRecordsOf(accounts, id) :
    FacadeCall(Returning(offlineGetAccount(id, ok, account)))

CreateAccount == \E name \in Names, ok \in BOOLEAN :
  FacadeCall(Returning(offlineCreateAccount(name, ok)))

UpdateAccount == \E id \in CallerIds(accounts), name \in Names, ok \in BOOLEAN :
  FacadeCall(Returning(offlineUpdateAccount(id, name, ok)))

DeleteAccount == \E id \in CallerIds(accounts), ok \in BOOLEAN :
  FacadeCall(Returning(offlineDeleteAccount(id, ok)))

GetContacts == \E ok \in BOOLEAN, list \in ServerLists(contacts) :
  FacadeCall(Returning(offlineGetContacts(ok, list)))

GetContact == \E id \in CallerIds(contacts), ok \in BOOLEAN :
  \E contact \in ServerRecordsOf(contacts, id) :
    FacadeCall(Returning(offlineGetContact(id, ok, contact)))

CreateContact == \E name \in Names, acc \in AccountChoices, ok \in BOOLEAN :
  FacadeCall(Returning(offlineCreateContact(name, acc, ok)))

\* the contact form resubmits the AccountId it loaded
UpdateContact == \E id \in CallerIds(contacts), name \in Names, ok \in BOOLEAN :
  FacadeCall(offlineUpdateContact(id, name,
             IF Has(contacts, id) THEN contacts[id].AccountId ELSE NoVal, ok))

DeleteContact == \E id \in CallerIds(contacts), ok \in BOOLEAN :
  FacadeCall(offlineDeleteContact(id, ok))

\* ------------------------------------------------------------ specification
\* new ConnectivityService() on page load
InitConnectivity ==
  /\ isOnline \in BOOLEAN
  /\ syncInProgress = FALSE
  /\ syncScheduled = FALSE
  /\ timers = 0
  /\ runs = <<>>

\* the database on first open
InitEmptyDb ==
  /\ accounts = EmptyStore
  /\ contacts = EmptyStore
  /\ nextSrv = 1

\* the database an earlier session left behind: one account and one contact
\* of it, both saved from the server, and nothing queued
InitSeededDb ==
  /\ accounts = Put(EmptyStore, ServerPool[1],
                    Rec("synced", Payload("Acme", NoVal)))
  /\ contacts = Put(EmptyStore, ServerPool[2],
                    Rec("synced", Payload("Acme", ServerPool[1])))
  /\ nextSrv = 3

InitRest ==
  /\ syncQueue = <<>>
  /\ appends = {}
  /\ now = 0
  /\ nextLocal = 1
  /\ nOps = 0
  /\ nFail = 0
  /\ lastCall = NoCall
  /\ idMap = EmptyStore
  /\ failedCalls = EmptyStore
  /\ deferred = FALSE
  /\ succeeded = {}
  /\ subscribers = <<>>
  /\ handles = <<>>
  /\ suspended = {}
  /\ notified = <<>>
  /\ overtaken = {}

Init ==
  /\ InitConnectivity
  /\ InitEmptyDb \/ InitSeededDb
  /\ InitRest
  /\ limits = [ops |-> MaxOps, fails |-> MaxFail]

\* one local mutation and a RemoteGateway that keeps failing
InitRetry ==
  /\ InitConnectivity
  /\ InitSeededDb
  /\ InitRest
  /\ limits = [ops |-> MaxRetryOps, fails |-> 2 * MaxAttempts]

ReplayNext == \E r \in RunIds : ProcessNext(r)

ReplaySettleOk == \E r \in RunIds : SettleOk(r)

ReplaySettleFail == \E r \in RunIds : SettleFail(r)

ReplaySettlePut == \E r \in RunIds : SettlePut(r)

AutoRunEnds == \E r \in RunIds : processQueueFinally(r)

ManualRunEnds == \E r \in RunIds : manualSyncFinally(r)

AutoRunThrows == \E r \in RunIds : processQueueCatch(r)

ManualRunThrows == \E r \in RunIds : manualSyncCatch(r)

\* a pending addToSyncQueue call runs its put
QueueAppend == \E e \in appends :
  /\ addToSyncQueue(e)
  /\ UNCHANGED <<connVars, runs, nextSrv, boundVars, subVars, suspended, overtaken, histVars>>
  /\ lastCall' = NoCall
  /\ notified' = <<>>

\* a component mounts and subscribes; the call counts against MaxOps
Subscribe == \E callback \in Callbacks :
  /\ nOps < limits.ops
  /\ nOps' = nOps + 1
  /\ subscribe(callback)
  /\ lastCall' = NoCall
  /\ UNCHANGED <<connVars, runs, dbVars, nextSrv, nFail, limits, histVars,
                 suspended, overtaken>>

\* a component unmounts and calls the function its subscribe() returned
Unsubscribe == \E h \in 1..Len(handles) :
  /\ ~handles[h].called
  /\ unsubscribe(h)
  /\ lastCall' = NoCall
  /\ notified' = <<>>
  /\ UNCHANGED <<connVars, runs, dbVars, nextSrv, boundVars, histVars,
                 suspended, overtaken>>

ContactWrite == \E w \in suspended : contactDbResume(w)

Next ==
  \/ handleOnline
  \/ handleOffline
  \/ TimerFire
  \/ manualSync
  \/ ReplayNext
  \/ ReplaySettleOk
  \/ ReplaySettleFail
  \/ ReplaySettlePut
  \/ AutoRunEnds
  \/ ManualRunEnds
  \/ AutoRunThrows
  \/ ManualRunThrows
  \/ GetAccounts
  \/ GetAccount
  \/ CreateAccount
  \/ UpdateAccount
  \/ DeleteAccount
  \/ GetContacts
  \/ GetContact
  \/ CreateContact
  \/ UpdateContact
  \/ DeleteContact
  \/ QueueAppend
  \/ Subscribe
  \/ Unsubscribe
  \/ ContactWrite

Spec == Init /\ [][Next]_vars

SpecRetry == InitRetry /\ [][Next]_vars

\* the scheduler runs every continuation that is ready: a replay run takes up
\* its next entry, a RemoteGateway call in flight settles, the put of a
\* reconciliation runs, and processQueue / manualSync go on after
\* processSyncQueue has returned
ReplaySettles == ReplaySettleOk \/ ReplaySettleFail

Fairness ==
  /\ WF_vars(ReplayNext)
  /\ WF_vars(ReplaySettles)
  /\ WF_vars(ReplaySettlePut)
  /\ WF_vars(AutoRunEnds)
  /\ WF_vars(ManualRunEnds)

SpecLive == InitRetry /\ [][Next]_vars /\ Fairness

\* ------------------------------------------------------------ properties
\* the queue entry run r is working on
CurrentOp(r) == runs[r].ops[runs[r].i]

\* this step settles the RemoteGateway call of run r as a success
SucceededStep(r) ==
  /\ Len(runs') = Len(runs)
  /\ runs[r].phase \in {"call", "put"}
  /\ runs'[r].success = runs[r].success + 1

\* this step is the loop body of run r taking up its current entry
TakesUpEntry(r) ==
  /\ Len(runs') = Len(runs)
  /\ runs[r].phase = "next"
  /\ runs'[r] # runs[r]

\* C1: at most one execution of processSyncQueue is in progress at any time,
\* whatever the interleaving of signals, timer firings and manualSync calls.
C1_SingleFlight == Len(runs) <= 1

\* a replay run is in progress while the debounce timer of another trigger is
\* still pending
C1_Witness ==
  /\ Len(runs) = 1
  /\ runs[1].phase = "call"
  /\ timers = 1
  /\ isOnline

\* C2 as stated: whenever the debounce timer of a burst of signals fires (no
\* manual replay running), exactly one replay run starts.
C2_ExactlyOneReplay ==
  [][(timers' < timers /\ ~syncInProgress) => Len(runs') = Len(runs) + 1]_vars

\* C2 amended: a burst arms at most one debounce timer, and when that timer
\* fires exactly one replay run starts if the client is online (and no replay
\* is running) and none starts otherwise; a signal by itself starts no run.
C2_OneTimerOneReplay ==
  [][/\ timers' <= 1
     /\ timers' < timers =>
          IF isOnline /\ ~syncInProgress
          THEN Len(runs') = Len(runs) + 1 /\ runs'[Len(runs')].src = "auto"
          ELSE runs' = runs
     /\ isOnline' # isOnline => runs' = runs]_vars

\* the debounce timer has fired while online and its replay run is going
C2_Witness ==
  /\ Len(runs) = 1
  /\ runs[1].src = "auto"
  /\ timers = 0
  /\ ~syncScheduled
  /\ isOnline

\* C3: within one replay run the RemoteGateway calls are issued in ascending
\* order of the entries' timestamps, over all entity types and records: no
\* call is issued before a call for an entry with a smaller timestamp.
C3_CallsInTimestampOrder ==
  \A r \in RunIds :
    \A i, j \in 1..Len(runs[r].calls) :
      i < j => runs[r].calls[i].timestamp <= runs[r].calls[j].timestamp

\* a run has issued the calls of two entries with different timestamps on
\* different records of different entity types, the older of which sat behind
\* the newer in the queue's key order
C3_Witness ==
  \E r \in RunIds :
    /\ Len(runs[r].calls) = 2
    /\ runs[r].calls[1].timestamp < runs[r].calls[2].timestamp
    /\ runs[r].calls[1].entityType # runs[r].calls[2].entityType
    /\ runs[r].calls[1].data.id # runs[r].calls[2].data.id
    /\ Len(syncQueue) = 2
    /\ syncQueue[1].id = runs[r].calls[2].id
    /\ syncQueue[2].id = runs[r].calls[1].id

StoreOfNext(entityType) == IF entityType = "account" THEN accounts' ELSE contacts'

\* C4: when a replay run's RemoteGateway.create for the record stored under
\* the local-origin id L succeeds with server id S, then afterwards
\* getById(L) returns nothing and getById(S) returns the record, which is
\* stored under S, and only there, with syncStatus synced.
C4_ReconciliationRoundTrip ==
  [][\A r \in RunIds :
       LET op == CurrentOp(r)
           L == op.data.id
           S == runs[r].sid
           after == StoreOfNext(op.entityType)
       IN (/\ SucceededStep(r)
           /\ op.operation = "create"
           /\ IsLocal(L)
           /\ runs[r].phase = "put")
          => /\ GetById(after, L) = NoRecord
             /\ ~Has(after, L)
             /\ Has(after, S)
             /\ after[S].status = "synced"
             /\ GetById(after, S).id = S
             /\ GetById(after, S).name = op.data.name]_vars

Range(f) == {f[x] : x \in DOMAIN f}

\* the position of a server id in the order the server assigned ids
SrvIndex(id) == CHOOSE i \in 1..Len(ServerPool) : ServerPool[i] = id

\* C5: when contact B was created offline with the local-origin id LA of
\* account A as its AccountId, and replay has reconciled A and then B, the
\* AccountId stored for B is A's server-assigned id, not LA.
C5_ForeignKeyCarried ==
  \A b \in DOMAIN contacts :
    \A LA \in DOMAIN idMap :
      (/\ b \in Range(idMap)
       /\ contacts[b].status = "synced"
       /\ contacts[b].AccountId \in {LA, idMap[LA]}
       /\ SrvIndex(idMap[LA]) < SrvIndex(b))
        => contacts[b].AccountId = idMap[LA]

\* C6: RemoteGateway.create for a contact whose AccountId is the local-origin
\* id of an account is in flight only when that account has been reconciled
\* (its record re-keyed to the server id).
C6_ParentReconciledFirst ==
  \A r \in RunIds :
    (/\ runs[r].phase = "call"
     /\ CurrentOp(r).entityType = "contact"
     /\ CurrentOp(r).operation = "create"
     /\ IsLocal(CurrentOp(r).data.AccountId))
      => CurrentOp(r).data.AccountId \in DOMAIN idMap

\* C7: a queue entry whose RemoteGateway call has failed in 5 replay runs is
\* not sent to RemoteGateway when a later run takes it up: the run issues no
\* call, leaves the entry queued as it is and counts it as failed.
C7_ExhaustedEntrySkipped ==
  [][\A r \in RunIds :
       (/\ TakesUpEntry(r)
        /\ Has(failedCalls, CurrentOp(r).id)
        /\ failedCalls[CurrentOp(r).id] >= MaxAttempts)
       => /\ runs'[r].phase = "next"
          /\ runs'[r].i = runs[r].i + 1
          /\ runs'[r].calls = runs[r].calls
          /\ runs'[r].failed = runs[r].failed + 1
          /\ runs'[r].success = runs[r].success
          /\ syncQueue' = syncQueue]_vars

\* a run has passed over an entry that had failed MaxAttempts times: nothing
\* was sent, the entry is still queued and the run counts one failure
C7_Witness ==
  \E r \in RunIds :
    /\ Len(runs[r].ops) = 1
    /\ runs[r].i = 2
    /\ runs[r].calls = <<>>
    /\ runs[r].failed = 1
    /\ Has(failedCalls, runs[r].ops[1].id)
    /\ failedCalls[runs[r].ops[1].id] = MaxAttempts
    /\ Len(syncQueue) = 1
    /\ syncQueue[1].id = runs[r].ops[1].id

EntityTypes == {"account", "contact"}

\* this step is a facade call that removes the local-origin, still created
\* record id from the store
PurgeStep(before, after, id) ==
  /\ nOps' = nOps + 1
  /\ IsLocal(id)
  /\ before[id].status = "created"
  /\ ~Has(after, id)

\* C8: delete(id) of a local-origin record that is still created removes the
\* record and appends no queue entry, for accounts and for contacts: the call
\* neither puts an entry nor issues an addToSyncQueue.
C8_PurgeLeavesNoEntry ==
  [][\A E \in EntityTypes :
       \A id \in DOMAIN StoreOf(E) :
         PurgeStep(StoreOf(E), StoreOfNext(E), id)
           => syncQueue' = syncQueue /\ appends' = appends]_vars

\* the keys of the Delete entries for record id of entity type E, queued in
\* q or on their way into the queue in pending
DeleteEntryIds(q, pending, E, id) ==
  {e.id : e \in {x \in pending \cup {q[i] : i \in 1..Len(q)} :
                   /\ x.entityType = E
                   /\ x.operation = "delete"
                   /\ x.data.id = id}}

\* C9: delete(id) of a synced record appends exactly one Delete entry for id
\* and leaves a tombstone that getById and getAll do not return; while the
\* record is a tombstone no step appends a further Delete entry for it.
C9_DeleteOfSynced ==
  [][\A E \in EntityTypes :
       \A id \in DOMAIN StoreOf(E) :
         LET before == StoreOf(E)
             after == StoreOfNext(E)
             old == DeleteEntryIds(syncQueue, appends, E, id)
             new == DeleteEntryIds(syncQueue', appends', E, id)
         IN /\ (/\ before[id].status = "synced"
                 /\ Has(after, id)
                 /\ after[id].status = "deleted")
               => /\ syncQueue' = syncQueue
                  /\ Cardinality(appends') = Cardinality(appends) + 1
                  /\ appends \subseteq appends'
                  /\ old \subseteq new
                  /\ Cardinality(new \ old) = 1
                  /\ GetById(after, id) = NoRecord
                  /\ \A rec \in GetAll(after) : rec.id # id
            /\ before[id].status = "deleted" => new \subseteq old]_vars

\* C10: a tombstone stays a tombstone, returned by no read, until a replay
\* run's RemoteGateway.delete for it succeeds, and only that step removes it.
C10_TombstoneStays ==
  [][\A E \in EntityTypes :
       \A id \in DOMAIN StoreOf(E) :
         LET before == StoreOf(E)
             after == StoreOfNext(E)
         IN before[id].status = "deleted"
            => \/ /\ Has(after, id)
                  /\ after[id].status = "deleted"
                  /\ GetById(after, id) = NoRecord
               \/ /\ ~Has(after, id)
                  /\ \E r \in RunIds :
                       /\ SucceededStep(r)
                       /\ CurrentOp(r).operation = "delete"
                       /\ CurrentOp(r).entityType = E
                       /\ CurrentOp(r).data.id = id]_vars

\* C11: in every reachable state every record stored under a local-origin id
\* has syncStatus created, in both object stores.
C11_LocalIdIsCreated ==
  \A E \in EntityTypes :
    \A id \in DOMAIN StoreOf(E) :
      IsLocal(id) => StoreOf(E)[id].status = "created"

\* a record under a local id has been updated and a replay run's create call
\* for it has failed: it is still stored, as created
C11_Witness ==
  \E E \in EntityTypes :
    \E id \in DOMAIN StoreOf(E) :
      /\ IsLocal(id)
      /\ StoreOf(E)[id].status = "created"
      /\ nOps = 2
      /\ nFail = 1
      /\ \E i \in 1..Len(syncQueue) :
           /\ syncQueue[i].data.id = id
           /\ syncQueue[i].attempts = 1
      /\ \E i \in 1..Len(syncQueue) :
           /\ syncQueue[i].data.id = id
           /\ syncQueue[i].id = 2

AccountOps ==
  {"getAccounts", "getAccount", "createAccount", "updateAccount", "deleteAccount"}

\* the object store a facade call works on, before and after the step
CallStore(op) == IF op \in AccountOps THEN accounts ELSE contacts

CallStoreNext(op) == IF op \in AccountOps THEN accounts' ELSE contacts'

\* the facade calls whose RemoteGateway result is handed to saveFromServer
SavingOps ==
  {"getAccounts", "getAccount", "createAccount", "updateAccount",
   "getContacts", "getContact", "createContact", "updateContact"}

\* C12: saveFromServer leaves every local record whose syncStatus is created,
\* updated or deleted exactly as it is, stores every record it writes as
\* synced, and touches neither the queue nor the pending appends.
C12_SaveFromServerGuard ==
  [][(lastCall'.remote = "ok" /\ lastCall'.op \in SavingOps) =>
       LET before == CallStore(lastCall'.op)
           after == CallStoreNext(lastCall'.op)
       IN /\ \A id \in DOMAIN before :
               before[id].status # "synced"
                 => Has(after, id) /\ after[id] = before[id]
          /\ \A id \in DOMAIN after :
               (~Has(before, id) \/ after[id] # before[id])
                 => after[id].status = "synced"
          /\ DOMAIN before \subseteq DOMAIN after
          /\ syncQueue' = syncQueue
          /\ appends' = appends]_vars

\* getAccount got the server's record of an account that is updated locally:
\* the local copy still is updated and keeps its own name
C12_Witness ==
  /\ lastCall.op = "getAccount"
  /\ lastCall.remote = "ok"
  /\ Has(accounts, lastCall.id)
  /\ accounts[lastCall.id].status = "updated"
  /\ accounts[lastCall.id].name # lastCall.value.name

\* this step settles the RemoteGateway call of run r as a failure
FailedStep(r) ==
  /\ Len(runs') = Len(runs)
  /\ runs[r].phase = "call"
  /\ runs'[r].failed = runs[r].failed + 1

\* C13: when the RemoteGateway call of an entry fails, the entry stays queued
\* with its incremented attempts, the run counts one failure, changes nothing
\* else and goes on with the next entry of its list.
C13_FailureDoesNotBlock ==
  [][\A r \in RunIds :
       FailedStep(r) =>
         LET op == CurrentOp(r)
         IN /\ syncQueue' = syncQueue
            /\ \E k \in 1..Len(syncQueue') :
                 /\ syncQueue'[k] = op
                 /\ syncQueue'[k].attempts = failedCalls'[op.id]
            /\ runs'[r].i = runs[r].i + 1
            /\ runs'[r].phase = "next"
            /\ runs'[r].ops = runs[r].ops
            /\ runs'[r].success = runs[r].success
            /\ accounts' = accounts
            /\ contacts' = contacts]_vars

\* the call of a run's first entry failed, the entry is still queued with
\* attempts 1, and the call of the second entry is in flight
C13_Witness ==
  \E r \in RunIds :
    /\ Len(runs[r].calls) = 2
    /\ runs[r].i = 2
    /\ runs[r].phase = "call"
    /\ runs[r].failed = 1
    /\ Has(failedCalls, runs[r].calls[1].id)
    /\ \E k \in 1..Len(syncQueue) :
         syncQueue[k].id = runs[r].calls[1].id /\ syncQueue[k].attempts = 1

\* the queue entries that refer to record id of entity type E
EntriesFor(E, id) ==
  {k \in 1..Len(syncQueue) :
     syncQueue[k].entityType = E /\ syncQueue[k].data.id = id}

\* C14: in every state another task can observe, a record that a local
\* create, update or delete has written (syncStatus created, updated or
\* deleted) has a queue entry in the sync queue.
C14_RecordWithQueueEntry ==
  \A E \in EntityTypes :
    \A id \in DOMAIN StoreOf(E) :
      StoreOf(E)[id].status \in {"created", "updated", "deleted"}
        => EntriesFor(E, id) # {}

\* C15: while a replay run reconciles the record of local id L with server id
\* S, every observable state has the record under L or under S.
C15_ReconciliationAtomic ==
  \A r \in RunIds :
    runs[r].phase = "put"
      => \/ Has(StoreOf(CurrentOp(r).entityType), CurrentOp(r).data.id)
         \/ Has(StoreOf(CurrentOp(r).entityType), runs[r].sid)

\* C16: a facade call goes to RemoteGateway only when the client is online and
\* the record id it is given is not a local id.
C16_RemoteOnlyOnlineAndServerId ==
  [][/\ (lastCall' # NoCall /\ lastCall'.remote # "none" /\ nOps' = nOps + 1)
          => isOnline /\ ~IsLocal(lastCall'.id)
     /\ \A w \in suspended' \ suspended :
          w.remote # "none" => isOnline /\ ~IsLocal(w.id)]_vars

\* an update of a record under a local id was made while online: it made no
\* RemoteGateway call and returned the local record
C16_Witness ==
  /\ lastCall.op \in {"updateAccount", "updateContact"}
  /\ IsLocal(lastCall.id)
  /\ isOnline
  /\ lastCall.remote = "none"
  /\ lastCall.result = "data"
  /\ lastCall.value.id = lastCall.id

\* C17: a facade call whose RemoteGateway call failed completes through
\* LocalStore: it returns the clean local record (for the list reads the
\* clean local records), or reports not-found when the record is absent or
\* a tombstone locally, and never hands the RemoteGateway error to the caller.
C17_RemoteFailureFallsBack ==
  [][lastCall'.remote = "failed" =>
       LET c == lastCall'
           after == CallStoreNext(c.op)
       IN /\ c.result \in {"data", "undefined", "NotFound", "void"}
          /\ c.op \in {"getAccounts", "getContacts"} => c.values = GetAll(after)
          /\ (c.result = "data" /\ c.op \notin {"getAccounts", "getContacts"})
               => c.value # NoRecord /\ c.value = GetById(after, c.value.id)
          /\ c.result \in {"undefined", "NotFound"}
               => GetById(after, c.id) = NoRecord]_vars

\* an online update whose RemoteGateway call failed was made locally: the
\* record is updated, its queue entry is on the way, the caller has the record
C17_Witness ==
  /\ lastCall.op = "updateAccount"
  /\ lastCall.remote = "failed"
  /\ lastCall.result = "data"
  /\ Has(accounts, lastCall.id)
  /\ accounts[lastCall.id].status = "updated"
  /\ lastCall.value = CleanRecord(lastCall.id, accounts[lastCall.id])
  /\ appends # {}

\* C18: a facade create, update or delete whose RemoteGateway call succeeded
\* appends no queue entry.
C18_NoEntryAfterRemoteSuccess ==
  [][(lastCall'.remote = "ok" /\ lastCall'.op \notin
        {"getAccounts", "getAccount", "getContacts", "getContact"})
       => syncQueue' = syncQueue /\ appends' = appends]_vars

\* C19: after a facade create or update whose RemoteGateway call succeeded,
\* the local copy of the record equals the record RemoteGateway returned and
\* is synced, whatever its sync status was before.
C19_MirrorsRemoteResult ==
  [][(lastCall'.remote = "ok" /\ lastCall'.op \in
        {"createAccount", "updateAccount", "createContact", "updateContact"})
       => LET after == CallStoreNext(lastCall'.op)
              rec == lastCall'.value
          IN /\ Has(after, rec.id)
             /\ after[rec.id] = Rec("synced", rec)]_vars

\* C20: while the client is online and the queue holds an entry with attempts
\* below the cap, a replay is on its way: a run is in progress or the
\* debounce timer is pending.
C20_ReplayOnItsWay ==
  (isOnline /\ \E k \in 1..Len(syncQueue) : syncQueue[k].attempts < MaxAttempts)
    => (timers > 0 \/ runs # <<>>)

\* C21: an 'online' signal that arrives while a replay run is in progress is
\* deferred, not lost: when that run completes and the client is still
\* online, a further replay is scheduled.
C21_DeferredNotLost ==
  [][(Len(runs') < Len(runs) /\ deferred /\ isOnline) => timers' > 0]_vars

\* C22: a manualSync() call made while the client is offline or a run is in
\* progress returns null and changes nothing: no run starts, no RemoteGateway
\* call is issued, the in-progress flag, the queue and the LocalStore stay as
\* they are; a manual run starts only while online with no run in progress.
C22_ManualSyncRejected ==
  [][/\ lastCall' = ManualSyncNull =>
          /\ ~isOnline \/ syncInProgress
          /\ UNCHANGED <<connVars, runs, dbVars, nextSrv, histVars>>
     /\ (Len(runs') > Len(runs) /\ runs'[Len(runs')].src = "manual") =>
          isOnline /\ ~syncInProgress]_vars

\* manualSync() was rejected while the RemoteGateway call of a run is in
\* flight, and the flag of that run is still set
C22_Witness ==
  /\ lastCall = ManualSyncNull
  /\ syncInProgress
  /\ runs # <<>>
  /\ runs[1].phase = "call"

\* C23: a run started on an empty queue issues no RemoteGateway call, counts
\* nothing and its completion changes neither the LocalStore nor the queue;
\* an entry counted as success is gone from the queue and is not among the
\* entries any run still has to process.
C23_EmptyRunAndNoResend ==
  [][/\ \A r \in RunIds : runs[r].ops = <<>> =>
          /\ runs[r].success = 0 /\ runs[r].failed = 0
          /\ runs[r].calls = <<>>
          /\ RunDone(r)
          /\ Len(runs') < Len(runs) =>
               UNCHANGED <<accounts, contacts, syncQueue, appends>>
     /\ \A id \in succeeded' :
          /\ id \notin Qids(syncQueue')
          /\ \A e \in appends' : e.id # id
          /\ \A r \in 1..Len(runs') :
               \A k \in runs'[r].i..Len(runs'[r].ops) :
                 runs'[r].ops[k].id # id]_vars

\* after an entry was replayed successfully a later run found the queue empty
C23_Witness ==
  /\ succeeded # {}
  /\ runs # <<>>
  /\ runs[1].ops = <<>>

\* C29: an entry leaves the queue exactly in the step that settles its
\* RemoteGateway call, issued in this run, as a success; an entry whose call
\* failed or that was skipped stays queued.
C29_RemovedIffCallSucceeded ==
  [][/\ \A id \in Qids(syncQueue) \ Qids(syncQueue') :
          \E r \in RunIds :
            /\ SucceededStep(r)
            /\ CurrentOp(r).id = id
            /\ runs[r].calls # <<>>
            /\ runs[r].calls[Len(runs[r].calls)].id = id
     /\ \A r \in RunIds :
          (FailedStep(r) \/ (TakesUpEntry(r) /\ AttemptsExhausted(CurrentOp(r))))
            => CurrentOp(r).id \in Qids(syncQueue')]_vars

\* C24: LocalStore.update on an id that its existence check finds absent or
\* stored as a tombstone fails with not-found and leaves the stores, the
\* queue and the pending appends unchanged, and no write of it is pending.
C24_UpdateNotFound ==
  [][(/\ nOps' = nOps + 1
      /\ lastCall'.op \in {"updateAccount", "updateContact"}
      /\ lastCall'.remote # "ok"
      /\ LET before == CallStore(lastCall'.op)
         IN \/ lastCall'.id \notin DOMAIN before
            \/ before[lastCall'.id].status = "deleted")
       => /\ lastCall'.result = "NotFound"
          /\ UNCHANGED <<accounts, contacts, syncQueue, appends, suspended>>]_vars

\* update was called for a tombstone: not-found, and the tombstone is as it was
C24_Witness ==
  /\ lastCall.op \in {"updateAccount", "updateContact"}
  /\ lastCall.result = "NotFound"
  /\ lastCall.id \in DOMAIN CallStore(lastCall.op)
  /\ CallStore(lastCall.op)[lastCall.id].status = "deleted"

\* the ids a read may be asked for
AllIds == Range(LocalPool) \cup Range(ServerPool)

\* the list reads of the facade that were answered from the LocalStore
LocalListReads == {"getAccounts", "getContacts"}

\* C25: getAll, getById and getByAccountId never return a record whose
\* syncStatus is deleted; getAll returns exactly the stored records that are
\* not deleted, getByAccountId those of them under the account asked for, and
\* getById is undefined exactly for an absent or tombstoned id.
C25_ReadsHideTombstones ==
  /\ \A store \in {accounts, contacts} :
       /\ \A rec \in GetAll(store) :
            /\ rec.id \in DOMAIN store
            /\ store[rec.id].status # "deleted"
            /\ rec.name = store[rec.id].name
            /\ rec.AccountId = store[rec.id].AccountId
       /\ \A id \in DOMAIN store :
            store[id].status # "deleted" => \E rec \in GetAll(store) : rec.id = id
       /\ \A id \in AllIds :
            LET rec == GetById(store, id)
            IN /\ rec = NoRecord <=>
                    (id \notin DOMAIN store \/ store[id].status = "deleted")
               /\ rec # NoRecord =>
                    /\ rec.id = id
                    /\ rec.name = store[id].name
                    /\ rec.AccountId = store[id].AccountId
  /\ \A acc \in AllIds :
       /\ \A rec \in contactDbGetByAccountId(acc) :
            /\ rec.id \in DOMAIN contacts
            /\ contacts[rec.id].status # "deleted"
            /\ rec.AccountId = acc
            /\ rec.name = contacts[rec.id].name
       /\ \A id \in DOMAIN contacts :
            (contacts[id].status # "deleted" /\ contacts[id].AccountId = acc)
              => \E rec \in contactDbGetByAccountId(acc) : rec.id = id
  /\ (lastCall.op \in LocalListReads /\ lastCall.remote # "ok") =>
       LET store == CallStore(lastCall.op)
       IN /\ \A rec \in lastCall.values :
               rec.id \in DOMAIN store /\ store[rec.id].status # "deleted"
          /\ \A id \in DOMAIN store :
               store[id].status # "deleted"
                 => \E rec \in lastCall.values : rec.id = id

\* a list read answered from a LocalStore that holds only a tombstone: the
\* list is empty
C25_Witness ==
  /\ lastCall.op \in LocalListReads
  /\ lastCall.remote # "ok"
  /\ lastCall.values = {}
  /\ \E id \in DOMAIN CallStore(lastCall.op) :
       CallStore(lastCall.op)[id].status = "deleted"

\* the RemoteGateway call of the entry qid is in flight in some run
InFlight(qid) ==
  \E r \in RunIds : runs[r].phase \in {"call", "put"} /\ CurrentOp(r).id = qid

\* C28: the attempts of every queue entry stay within 0..5; an entry whose
\* attempts are 5 and whose call is not in flight stays in the queue as it
\* is, and a run that takes it up issues no call and counts it as failed.
C28_ExhaustedEntryFrozen ==
  [][/\ \A k \in 1..Len(syncQueue') : syncQueue'[k].attempts \in 0..MaxAttempts
     /\ \A k \in 1..Len(syncQueue) :
          (syncQueue[k].attempts = MaxAttempts /\ ~InFlight(syncQueue[k].id))
            => \E j \in 1..Len(syncQueue') : syncQueue'[j] = syncQueue[k]
     /\ \A r \in RunIds :
          (TakesUpEntry(r) /\ CurrentOp(r).attempts = MaxAttempts)
            => /\ runs'[r].calls = runs[r].calls
               /\ runs'[r].phase = "next"
               /\ runs'[r].failed = runs[r].failed + 1
               /\ runs'[r].success = runs[r].success]_vars

\* a manual run has finished its list over an entry with 5 attempts: one
\* failure, no success, no call, the entry queued with 5 attempts
C28_Witness ==
  /\ Len(syncQueue) = 1
  /\ syncQueue[1].attempts = MaxAttempts
  /\ \E r \in RunIds :
       /\ runs[r].src = "manual"
       /\ RunDone(r)
       /\ runs[r].ops = <<syncQueue[1]>>
       /\ runs[r].calls = <<>>
       /\ runs[r].failed = 1
       /\ runs[r].success = 0

\* the handles of callback cb whose unsubscribe function was not called
ActiveHandles(hs, cb) == {h \in 1..Len(hs) : hs[h].cb = cb /\ ~hs[h].called}

\* the invocations of callback cb among the invocations ns
Invocations(ns, cb) == {k \in 1..Len(ns) : ns[k].cb = cb}

\* C26: subscribe(callback) invokes the callback once with the current online
\* status before it returns; on a later signal a callback is invoked at most
\* once per subscription of it that was not unsubscribed, so not at all once
\* its unsubscribe functions have been called.
C26_InitialNotifyAndUnsubscribe ==
  [][/\ Len(handles') > Len(handles) =>
          /\ notified' = <<[cb |-> handles'[Len(handles')].cb,
                            online |-> isOnline, by |-> "subscribe"]>>
          /\ isOnline' = isOnline
     /\ (handleOnline \/ handleOffline) =>
          \A cb \in Callbacks :
            Cardinality(Invocations(notified', cb))
              <= Cardinality(ActiveHandles(handles, cb))]_vars

\* after the first subscription was unsubscribed a signal has notified the
\* second one only
C26_Witness ==
  /\ Len(handles) = 2
  /\ handles[1].called
  /\ ~handles[2].called
  /\ handles[1].cb # handles[2].cb
  /\ Len(notified) = 1
  /\ notified[1].cb = handles[2].cb
  /\ notified[1].by = "signal"

\* C27: an 'online' / 'offline' signal leaves getIsOnline() equal to the
\* signalled status and invokes, with that status, the callback of every
\* subscription that was not unsubscribed; calling an unsubscribe function
\* removes the one subscription it was returned for, every other
\* subscription, of the same callback or another, stays subscribed.
C27_EverySubscriptionNotified ==
  [][/\ handleOnline => isOnline'
     /\ handleOffline => ~isOnline'
     /\ (handleOnline \/ handleOffline) =>
          /\ \A k \in 1..Len(notified') : notified'[k].online = isOnline'
          /\ \A cb \in Callbacks :
               Cardinality(Invocations(notified', cb))
                 = Cardinality(ActiveHandles(handles, cb))
     /\ (\E h \in 1..Len(handles) : handles'[h].called /\ ~handles[h].called) =>
          \A cb \in Callbacks :
            Cardinality({k \in 1..Len(subscribers') : subscribers'[k] = cb})
              = Cardinality(ActiveHandles(handles', cb))]_vars

\* C30: every LocalStore update, delete and saveFromServer call makes its
\* existence check and its write in one atomic transaction: when a call
\* writes, the record stored under the id is the record its check read, no
\* other task has written it in between.
C30_CheckAndWriteAtomic ==
  [][\A w \in suspended \ suspended' :
       /\ w.id \in DOMAIN contacts
       /\ contacts[w.id] = w.existing]_vars

\* this step is a replay run working on the queue entry qid: the loop body
\* takes it up or its RemoteGateway call settles as a success
ReplayedStep(qid) ==
  \E r \in RunIds :
    /\ TakesUpEntry(r) \/ SucceededStep(r)
    /\ CurrentOp(r).id = qid

\* C31: a queue entry keeps its entityType, operation, data and timestamp for
\* as long as it is queued; a step that is not a replay run working on the
\* entry leaves it in the queue exactly as it is; an entry on its way into the
\* queue is put as it was enqueued; a new entry gets a key no other entry has,
\* so it replaces none.
C31_QueueAppendOnly ==
  [][/\ \A k \in 1..Len(syncQueue) :
          LET e == syncQueue[k]
          IN /\ \A j \in 1..Len(syncQueue') :
                  syncQueue'[j].id = e.id =>
                    /\ syncQueue'[j].entityType = e.entityType
                    /\ syncQueue'[j].operation = e.operation
                    /\ syncQueue'[j].data = e.data
                    /\ syncQueue'[j].timestamp = e.timestamp
                    /\ syncQueue'[j] # e => ReplayedStep(e.id)
             /\ e.id \notin Qids(syncQueue') => ReplayedStep(e.id)
     /\ \A e \in appends :
          e \in appends' \/ \E j \in 1..Len(syncQueue') : syncQueue'[j] = e
     /\ \A e \in appends' \ appends :
          /\ e.id \notin Qids(syncQueue)
          /\ \A x \in appends : x.id # e.id]_vars

\* the create entry of a record has been tried once and is still queued, and
\* a later update of the same record has put a second entry next to it
C31_Witness ==
  \E i, j \in 1..Len(syncQueue) :
    /\ i # j
    /\ syncQueue[i].data.id = syncQueue[j].data.id
    /\ syncQueue[i].operation = "create"
    /\ syncQueue[i].attempts = 1
    /\ syncQueue[j].attempts = 0
    /\ syncQueue[i].timestamp <= syncQueue[j].timestamp

\* the keys of the entries, queued or on their way into the queue, that were
\* not in the list run r read: the entries added since the run began
AddedDuring(r) ==
  (Qids(syncQueue) \cup {e.id : e \in appends})
    \ {runs[r].ops[k].id : k \in 1..Len(runs[r].ops)}

\* C32: the step that ends an automatic run arms the debounce timer only if
\* the client is online and entries were added during the run; when none was
\* added, no timer is pending after the run and the scheduler is idle.
C32_RescheduleOnlyIfAdded ==
  [][\A r \in RunIds :
       (runs[r].src = "auto" /\ Len(runs') < Len(runs)) =>
         /\ timers' > timers => (isOnline /\ AddedDuring(r) # {})
         /\ AddedDuring(r) = {} => (timers' = 0 /\ ~syncScheduled')]_vars

\* C33: replay's RemoteGateway.create for a local-origin id settles as a
\* success only if no create for that id has succeeded before: the id has
\* not been reconciled with a server id yet.
C33_AtMostOneCreate ==
  [][\A r \in RunIds :
       (/\ SucceededStep(r)
        /\ CurrentOp(r).operation = "create"
        /\ IsLocal(CurrentOp(r).data.id))
       => CurrentOp(r).data.id \notin DOMAIN idMap]_vars

\* C34: a replay run issues a RemoteGateway call for an entry of a
\* local-origin id only while the record is stored under that id or has been
\* reconciled: never on behalf of a record that was purged.
C34_PurgedNeverSent ==
  [][\A r \in RunIds :
       (/\ TakesUpEntry(r)
        /\ runs'[r].phase = "call"
        /\ IsLocal(CurrentOp(r).data.id))
       => \/ Has(StoreOf(CurrentOp(r).entityType), CurrentOp(r).data.id)
          \/ CurrentOp(r).data.id \in DOMAIN idMap]_vars

\* the reads of the facade, and those of them that return a list
FacadeReads == {"getAccounts", "getAccount", "getContacts", "getContact"}

FacadeListReads == {"getAccounts", "getContacts"}

EntityOf(op) == IF op \in AccountOps THEN "account" ELSE "contact"

\* the records a facade read handed to its caller
Returned(call) ==
  IF call.op \in FacadeListReads THEN call.values
  ELSE IF call.result = "data" THEN {call.value} ELSE {}

\* C36: a facade read, online or offline, returns no record that is a
\* tombstone locally with its Delete entry still queued, and a list read
\* returns every record stored locally as created.
C36_ReadsShowPendingChanges ==
  lastCall.op \in FacadeReads =>
    LET store == CallStore(lastCall.op)
        E == EntityOf(lastCall.op)
    IN /\ \A rec \in Returned(lastCall) :
            (Has(store, rec.id) /\ store[rec.id].status = "deleted")
              => DeleteEntryIds(syncQueue, appends, E, rec.id) = {}
       /\ lastCall.op \in FacadeListReads =>
            \A id \in DOMAIN store :
              store[id].status = "created"
                => \E rec \in lastCall.values : rec.id = id

\* C37: a record is stored as synced only if the queue holds no entry with
\* attempts below the cap that refers to its id.
C37_SyncedHasNoPendingEntry ==
  \A E \in EntityTypes :
    \A id \in DOMAIN StoreOf(E) :
      StoreOf(E)[id].status = "synced"
        => \A k \in EntriesFor(E, id) : syncQueue[k].attempts >= MaxAttempts

\* C35: replay issues no RemoteGateway call for a queue entry that was
\* already waiting when a facade update or delete of the same record went
\* directly to RemoteGateway and succeeded: the older snapshot does not reach
\* RemoteGateway after the newer call.
C35_DirectNotOvertaken ==
  [][\A r \in RunIds :
       (TakesUpEntry(r) /\ runs'[r].phase = "call")
         => CurrentOp(r).id \notin overtaken]_vars

\* C38: getIsSyncing() is true exactly while a run of processSyncQueue is in
\* progress, a run that ends (by returning or by throwing) leaves it false,
\* and whenever it is true it is false again later, provided the
\* RemoteGateway calls of the run settle.
C38_SyncingWhileRunning ==
  /\ [](syncInProgress <=> runs # <<>>)
  /\ [][Len(runs') < Len(runs) => ~syncInProgress']_vars
  /\ (syncInProgress ~> ~syncInProgress)

\* a run in which the call of an entry failed has ended: the flag is false
\* again and the entry is still queued with its attempt counted
C38_Witness ==
  /\ ~syncInProgress
  /\ runs = <<>>
  /\ nFail > 0
  /\ \E k \in 1..Len(syncQueue) : syncQueue[k].attempts > 0

====
